---------------------------- MODULE Spec2Model ----------------------------
(***************************************************************************)
(* A model of fasta_header.py: the canonicalisation of the input file's    *)
(* folder name (check_name_folder_infile), the rewriting of one fasta      *)
(* header (make_new_header) and the script itself (process_arguments,      *)
(* rename_headers and the statements at module scope).                     *)
(*                                                                         *)
(* A Python string is a sequence of one-character strings, so that         *)
(* splitting, slicing and substring tests are computed as Python computes  *)
(* them.                                                                   *)
(***************************************************************************)
EXTENDS Integers, Sequences, FiniteSets, TLC

VARIABLES
    \* check_name_folder_infile applied once and then to its own result
    raw_name, name_once, name_twice, name_pc,
    \* make_new_header applied to one header line
    header, header_prefix, new_header, header_pc,
    \* the script: command line, file system, program position, outputs
    args, folder, infile, fs, fs0, pc, name_folder_infile, path_output,
    file_reader, file_writer, lines_read, lines_written, stdout, stderr,
    status

nameVars == <<raw_name, name_once, name_twice, name_pc>>
headerVars == <<header, header_prefix, new_header, header_pc>>
scriptVars == <<args, folder, infile, fs, fs0, pc, name_folder_infile,
                path_output, file_reader, file_writer, lines_read,
                lines_written, stdout, stderr, status>>
vars == <<nameVars, headerVars, scriptVars>>

---------------------------------------------------------------------------
(* Bounds of the model.                                                    *)

\* longest raw folder name explored for check_name_folder_infile
MaxNameLen == 7
\* most space-separated tokens of an explored header line
MaxTokens == 3
\* most lines of an explored input file
MaxLines == 2

---------------------------------------------------------------------------
(* Python's string operations.                                             *)

\* str.startswith(p)
StartsWith(s, p) ==
    /\ Len(p) <= Len(s)
    /\ SubSeq(s, 1, Len(p)) = p

\* p in s
Contains(s, p) ==
    \E i \in 0..(Len(s) - Len(p)) : SubSeq(s, i + 1, i + Len(p)) = p

\* s.split(c) for a one-character separator c: never an empty list
RECURSIVE Split(_, _)
Split(s, c) ==
    IF \A i \in 1..Len(s) : s[i] # c
    THEN <<s>>
    ELSE LET i == CHOOSE k \in 1..Len(s) :
                      /\ s[k] = c
                      /\ \A j \in 1..(k - 1) : s[j] # c
         IN  <<SubSeq(s, 1, i - 1)>> \o Split(SubSeq(s, i + 1, Len(s)), c)

\* s.replace(c, "") for a one-character c
Remove(s, c) == SelectSeq(s, LAMBDA x : x # c)

\* s[len(s) - 1:], which is "" for the empty string (s[-1:])
LastSlice(s) == IF Len(s) = 0 THEN <<>> ELSE <<s[Len(s)]>>

\* s[: -1]
DropLast(s) == SubSeq(s, 1, Len(s) - 1)

\* all sequences over S of length at most n
SeqsUpTo(S, n) == UNION {[1..k -> S] : k \in 0..n}

---------------------------------------------------------------------------
(* check_name_folder_infile                                                *)

\* "if name[len(name) - 1:] == c: name = name[: -1]"
StripTrailingKeep(s, c) == s
StripTrailing(s, c) == IF LastSlice(s) = <<c>> THEN DropLast(s) ELSE s

\* the separator the loop puts after the tag at index (0-based) of n tags
SeparatorAllDash(index, n) == IF index = 0 THEN "_" ELSE "-"
Separator(index, n) ==
    IF index = 0 THEN "_"
    ELSE IF index = n - 1 THEN "_"
    ELSE "-"

\* the for loop over enumerate(tags), from index on, with name so far
RECURSIVE Reconnect(_, _, _)
Reconnect(tags, index, name) ==
    IF index >= Len(tags)
    THEN name
    ELSE LET tag == tags[index + 1]
             sep == <<Separator(index, Len(tags))>>
         IN  Reconnect(tags, index + 1,
                       IF index = 0 THEN tag \o sep ELSE name \o tag \o sep)

\* the local variable name before the loop's first assignment: returning it
\* unassigned would raise UnboundLocalError
Unbound == <<"UnboundLocalError">>

check_name_folder_infile_dash_only(name) ==
    Reconnect(Split(StripTrailing(name, "-"), "_"), 0, Unbound)
check_name_folder_infile(name) ==
    LET s1 == StripTrailing(name, "-")
        s2 == StripTrailing(s1, "_")
    IN  Reconnect(Split(s2, "_"), 0, Unbound)

---------------------------------------------------------------------------
(* make_new_header                                                         *)

LengthWord == <<"l", "e", "n", "g", "t", "h">>
CircularWord == <<"c", "i", "r", "c", "u", "l", "a", "r">>
LinearWord == <<"l", "i", "n", "e", "a", "r">>

\* the state of the loop: length, topology, and the exception raised if any
NoInfo == [length |-> <<>>, topology |-> <<>>, raised |-> ""]

\* one iteration of "for info in header" on the token info
ScanFirstWins(acc, info) ==
    IF acc.raised # "" THEN acc
    ELSE IF Contains(info, LengthWord)
    THEN LET parts == Split(info, "=")
         IN  IF Len(parts) < 2
             THEN [acc EXCEPT !.raised = "IndexError"]
             ELSE IF acc.length # <<>> THEN acc
             ELSE [acc EXCEPT !.length = Remove(parts[2], "\n")]
    ELSE IF Contains(info, CircularWord)
    THEN IF acc.topology # <<>> THEN acc
         ELSE [acc EXCEPT !.topology = Remove(Split(info, "=")[1], "\n")]
    ELSE acc
Scan(acc, info) ==
    IF acc.raised # "" THEN acc
    ELSE IF Contains(info, LengthWord)
    THEN LET parts == Split(info, "=")
         IN  IF Len(parts) < 2
             THEN [acc EXCEPT !.raised = "IndexError"]
             ELSE [acc EXCEPT !.length = Remove(parts[2], "\n")]
    ELSE IF Contains(info, CircularWord)
    THEN [acc EXCEPT !.topology = Remove(Split(info, "=")[1], "\n")]
    ELSE acc

\* the whole loop over the tokens, from token i on
RECURSIVE ScanFrom(_, _, _)
ScanFrom(tokens, i, acc) ==
    IF i > Len(tokens) THEN acc
    ELSE ScanFrom(tokens, i + 1, Scan(acc, tokens[i]))

\* "if topology == '': topology = 'linear'"
UsesFallbackNever(topology) == FALSE
UsesFallback(topology) == topology = <<>>

\* the call make_new_header(header, name_folder_infile): the exception it
\* raises or the string it returns, with the two fields it was built from
make_new_header(h, prefix) ==
    LET info == ScanFrom(Split(h, " "), 1, NoInfo)
        fallback == UsesFallback(info.topology)
        topology == IF fallback THEN LinearWord ELSE info.topology
    IN  IF info.raised # ""
        THEN [raised |-> info.raised, value |-> <<>>, length |-> <<>>,
              topology |-> <<>>, fallback |-> FALSE]
        ELSE [raised |-> "",
              value |-> <<">">> \o prefix \o info.length \o <<"_">>
                        \o topology \o <<"\n">>,
              length |-> info.length,
              topology |-> topology,
              fallback |-> fallback]

NotCalled == [raised |-> "", value |-> <<>>, length |-> <<>>,
              topology |-> <<>>, fallback |-> FALSE]

---------------------------------------------------------------------------
(* Inputs explored.                                                        *)

NameAlphabet == {"a", "b", "-", "_"}
\* the two names the documented examples are about
DocumentedNames == { <<"a", "_", "b", "_", "c">>,
                     <<"a", "_", "b", "_", "c", "_", "d">> }
RawNames == SeqsUpTo(NameAlphabet, MaxNameLen) \cup DocumentedNames

\* tokens of a Unicycler-like header, well formed and not
HeaderTokens ==
    { <<"1">>,
      <<>>,
      LengthWord \o <<"=", "5">>,
      LengthWord \o <<"=", "1", "2">>,
      LengthWord,
      CircularWord \o <<"=", "t", "r", "u", "e">>,
      CircularWord,
      <<"=">> \o CircularWord,
      <<"x", "=">> \o CircularWord,
      LengthWord \o <<"=">> \o CircularWord }

RECURSIVE JoinWith(_, _)
JoinWith(tokens, c) ==
    IF Len(tokens) = 0 THEN <<>>
    ELSE IF Len(tokens) = 1 THEN tokens[1]
    ELSE tokens[1] \o <<c>> \o JoinWith(Tail(tokens), c)

\* header lines as the file iterator yields them: ">", tokens separated by
\* single spaces, and a newline unless the line is the last of the file
HeaderLines ==
    { <<">">> \o JoinWith(ts, " ") \o nl :
        ts \in (SeqsUpTo(HeaderTokens, MaxTokens) \ {<<>>}),
        nl \in {<<>>, <<"\n">>} }

Prefixes == { <<"a", "_">>, <<"a", "_", "b", "-", "a", "_">> }

---------------------------------------------------------------------------
(* The script's variables while only a function is exercised.              *)

ScriptIdle ==
    /\ args = [input |-> "none", output |-> "none"]
    /\ folder = <<>>
    /\ infile = <<>>
    /\ fs = <<>>
    /\ fs0 = <<>>
    /\ pc = "idle"
    /\ name_folder_infile = <<>>
    /\ path_output = "none"
    /\ file_reader = "none"
    /\ file_writer = "none"
    /\ lines_read = <<>>
    /\ lines_written = 0
    /\ stdout = 0
    /\ stderr = ""
    /\ status = -1

NameIdle ==
    /\ raw_name = <<>>
    /\ name_once = <<>>
    /\ name_twice = <<>>
    /\ name_pc = "idle"

HeaderIdle ==
    /\ header = <<>>
    /\ header_prefix = <<>>
    /\ new_header = NotCalled
    /\ header_pc = "idle"

---------------------------------------------------------------------------
(* SpecName: check_name_folder_infile on every raw name, then on its       *)
(* own result.                                                             *)

InitName ==
    /\ raw_name \in RawNames
    /\ name_once = <<>>
    /\ name_twice = <<>>
    /\ name_pc = "start"
    /\ HeaderIdle
    /\ ScriptIdle

Canonicalize ==
    /\ name_pc = "start"
    /\ name_once' = check_name_folder_infile(raw_name)
    /\ name_pc' = "once"
    /\ UNCHANGED <<raw_name, name_twice, headerVars, scriptVars>>

CanonicalizeAgain ==
    /\ name_pc = "once"
    /\ name_twice' = check_name_folder_infile(name_once)
    /\ name_pc' = "twice"
    /\ UNCHANGED <<raw_name, name_once, headerVars, scriptVars>>

NextName == Canonicalize \/ CanonicalizeAgain

SpecName == InitName /\ [][NextName]_vars

---------------------------------------------------------------------------
(* SpecHeader: make_new_header on every explored header line.              *)

InitHeader ==
    /\ header \in HeaderLines
    /\ header_prefix \in Prefixes
    /\ new_header = NotCalled
    /\ header_pc = "start"
    /\ NameIdle
    /\ ScriptIdle

MakeNewHeader ==
    /\ header_pc = "start"
    /\ new_header' = make_new_header(header, header_prefix)
    /\ header_pc' = "done"
    /\ UNCHANGED <<header, header_prefix, nameVars, scriptVars>>

NextHeader == MakeNewHeader

SpecHeader == InitHeader /\ [][NextHeader]_vars

---------------------------------------------------------------------------
(* Claims about check_name_folder_infile, checked under SpecName.          *)

IsSeparator(c) == c \in {"-", "_"}

\* the CanonicalPrefix invariant: an underscore at the end, at most one
\* other underscore (the one after the first tag), no two separators adjacent
IsCanonicalPrefix(p) ==
    /\ Len(p) >= 1
    /\ p[Len(p)] = "_"
    /\ Cardinality({i \in 1..Len(p) : p[i] = "_"}) <= 2
    /\ \A i \in 1..(Len(p) - 1) : ~(IsSeparator(p[i]) /\ IsSeparator(p[i + 1]))

\* C2: for every raw directory name the returned prefix satisfies the
\* CanonicalPrefix invariant (one underscore after the first tag, one at the
\* end, dashes between the other tags, no two separators adjacent).
C2_PrefixIsCanonical ==
    name_pc # "start" => IsCanonicalPrefix(name_once)

\* n >= 2 non-empty tags joined by single underscores, not ending in a
\* separator
WellFormedTags(name) ==
    LET tags == Split(name, "_")
    IN  /\ Len(tags) >= 2
        /\ \A i \in 1..Len(tags) : tags[i] # <<>>
        /\ name[Len(name)] \notin {"-", "_"}

\* C3: a name of n >= 2 non-empty tags joined by single underscores, not
\* ending in a dash or underscore, gives tag0 + "_" + the other tags joined
\* by "-" + "_"; "a_b_c" gives "a_b-c_" and "a_b_c_d" gives "a_b-c-d_".
C3_TagsRejoined ==
    name_pc # "start" =>
        /\ WellFormedTags(raw_name) =>
               LET tags == Split(raw_name, "_")
               IN  name_once = tags[1] \o <<"_">>
                               \o JoinWith(Tail(tags), "-") \o <<"_">>
        /\ raw_name = <<"a", "_", "b", "_", "c">> =>
               name_once = <<"a", "_", "b", "-", "c", "_">>
        /\ raw_name = <<"a", "_", "b", "_", "c", "_", "d">> =>
               name_once = <<"a", "_", "b", "-", "c", "-", "d", "_">>

C3_Witness ==
    /\ name_pc = "once"
    /\ raw_name = <<"a", "_", "b", "_", "c", "_", "d">>
    /\ WellFormedTags(raw_name)
    /\ name_once = <<"a", "_", "b", "-", "c", "-", "d", "_">>

NoUnderscore(name) == \A i \in 1..Len(name) : name[i] # "_"

\* C4 as stated: every name without an underscore, names ending in a dash
\* and the empty name included, gives name + "_".
C4_Original ==
    (name_pc # "start" /\ NoUnderscore(raw_name)) =>
        name_once = raw_name \o <<"_">>

\* C4 as amended: a name without an underscore gives the name, less one
\* trailing dash if it ends in a dash, followed by a single underscore.
C4_NoUnderscore ==
    (name_pc # "start" /\ NoUnderscore(raw_name)) =>
        name_once =
            (IF Len(raw_name) > 0 /\ raw_name[Len(raw_name)] = "-"
             THEN SubSeq(raw_name, 1, Len(raw_name) - 1)
             ELSE raw_name) \o <<"_">>

C4_Witness ==
    /\ name_pc = "once"
    /\ raw_name = <<"a", "b", "-">>
    /\ name_once = <<"a", "b", "_">>

\* C10: check_name_folder_infile returns a string for every raw name (it
\* never returns its local unassigned) and is idempotent: applied to its own
\* result it returns that result.
C10_TotalIdempotent ==
    /\ name_pc # "start" => name_once # Unbound
    /\ name_pc = "twice" => name_twice = name_once

C10_Witness ==
    /\ name_pc = "twice"
    /\ raw_name = <<"a", "_", "_", "b", "-", "_">>
    /\ name_twice = name_once
    /\ name_once # raw_name

---------------------------------------------------------------------------
(* Claims about make_new_header, checked under SpecHeader.                 *)

\* the indices of the tokens of line h that contain word / that contain
\* word and not the word "length"
TokensWith(h, word) ==
    LET tokens == Split(h, " ")
    IN  {i \in 1..Len(tokens) : Contains(tokens[i], word)}
CircularOnly(h) == TokensWith(h, CircularWord) \ TokensWith(h, LengthWord)

Last(S) == CHOOSE i \in S : \A j \in S : j <= i

\* field number k (from 1) of a token split on "=", newlines removed
Field(h, i, k) == Remove(Split(Split(h, " ")[i], "=")[k], "\n")

\* the lines C1 is about: every "length" token has an "=", every "circular"
\* token without "length" has text before its first "="
WellFormedHeader(h) ==
    /\ \A i \in TokensWith(h, LengthWord) :
           Contains(Split(h, " ")[i], <<"=">>)
    /\ \A i \in CircularOnly(h) : Split(Split(h, " ")[i], "=")[1] # <<>>

\* the length field C1 names: from the last token containing "length"
ClaimedLength(h) ==
    IF TokensWith(h, LengthWord) = {} THEN <<>>
    ELSE Field(h, Last(TokensWith(h, LengthWord)), 2)

Assembled(prefix, length, topology) ==
    <<">">> \o prefix \o length \o <<"_">> \o topology \o <<"\n">>

\* C1 as stated: on a well-formed line the result is ">" + prefix + L + "_"
\* + T + "\n", L the second "="-field of the last token containing "length"
\* (empty if none), T the first "="-field of the last token containing
\* "circular", or "linear" if no token contains "circular".
C1_Original ==
    (header_pc = "done" /\ WellFormedHeader(header)) =>
        /\ new_header.raised = ""
        /\ new_header.value =
               Assembled(header_prefix, ClaimedLength(header),
                         IF TokensWith(header, CircularWord) = {}
                         THEN LinearWord
                         ELSE Field(header,
                                    Last(TokensWith(header, CircularWord)), 1))

\* C1 as amended: T is the first "="-field of the last token that contains
\* "circular" and does not contain "length", or "linear" if there is no such
\* token; the rest as stated.
C1_HeaderAssembled ==
    (header_pc = "done" /\ WellFormedHeader(header)) =>
        /\ new_header.raised = ""
        /\ new_header.value =
               Assembled(header_prefix, ClaimedLength(header),
                         IF CircularOnly(header) = {}
                         THEN LinearWord
                         ELSE Field(header, Last(CircularOnly(header)), 1))

\* two "length" tokens and two "circular" tokens, the last of each decides
C1_Witness ==
    /\ header_pc = "done"
    /\ WellFormedHeader(header)
    /\ Cardinality(TokensWith(header, LengthWord)) >= 2
    /\ new_header.length = <<"1", "2">>
    /\ \E ts \in [1..3 -> HeaderTokens] :
           /\ header = <<">">> \o JoinWith(ts, " ") \o <<"\n">>
           /\ ts[1] = LengthWord \o <<"=", "5">>
           /\ ts[2] = LengthWord \o <<"=", "1", "2">>
           /\ ts[3] = <<"x", "=">> \o CircularWord
    /\ new_header.value =
           Assembled(header_prefix, <<"1", "2">>, <<"x">>)

\* C5 as stated: the topology field is "linear" exactly when no token
\* contains "circular"; when some token does, the field is the tag taken
\* from that token and not the fallback.
C5_Original ==
    (header_pc = "done" /\ new_header.raised = "") =>
        /\ new_header.topology = LinearWord
               <=> TokensWith(header, CircularWord) = {}
        /\ TokensWith(header, CircularWord) # {} =>
               /\ ~new_header.fallback
               /\ new_header.topology =
                      Field(header, Last(TokensWith(header, CircularWord)), 1)

\* C5 as amended: the fallback "linear" is used exactly when no token
\* contains "circular" without "length", or the last such token has nothing
\* before its first "="; otherwise the field is the text before the first
\* "=" of the last token containing "circular" and not "length".
C5_TopologyFallback ==
    (header_pc = "done" /\ new_header.raised = "") =>
        LET S == CircularOnly(header)
            none == S = {} \/ Field(header, Last(S), 1) = <<>>
        IN  /\ new_header.fallback <=> none
            /\ none => new_header.topology = LinearWord
            /\ ~none => new_header.topology = Field(header, Last(S), 1)

\* a line with a "circular" token (the tag is taken) ...
C5_Witness ==
    /\ header_pc = "done"
    /\ new_header.raised = ""
    /\ CircularOnly(header) # {}
    /\ ~new_header.fallback
    /\ new_header.topology = CircularWord

---------------------------------------------------------------------------
(* The script: process_arguments, rename_headers, and the statements at    *)
(* module scope that call them and print the confirmation.                 *)
(*                                                                         *)
(* args.input is the kind of thing the input path names ("file", "dir" or  *)
(* "missing"); args.output is "none" (no -o), "parent" (the folder of the  *)
(* input file), "other" (another existing directory) or "missing".  A file *)
(* is a pair <<directory, name>>; fs maps each existing file to its        *)
(* content, the sequence of its lines as stored, each with its terminator. *)

AssemblyFasta ==
    <<"a", "s", "s", "e", "m", "b", "l", "y", ".", "f", "a", "s", "t", "a">>

\* sys.exit(1, message=...): sys.exit takes no keyword argument, so the
\* call raises TypeError; the uncaught exception ends the process with
\* status 1 and its traceback, not the message, is what is reported
SysExit(code, message) ==
    [stderr |-> "TypeError: sys.exit() takes no keyword arguments",
     status |-> 1]

\* the check of process_arguments that fails, "" if none does
FailedCheck(a) ==
    IF a.input = "missing"
    THEN "Error: path to fasta file doesn't exist"
    ELSE IF a.input # "file"
    THEN "Error: provided input argument is not a file"
    ELSE IF a.output # "none" /\ a.output = "missing"
    THEN "Error: path to output directory doesn't exist"
    ELSE ""

\* the file a text-mode reader yields a stored line as: "\r\n" and "\r"
\* become "\n" (open(..., "r") reads with universal newlines)
UniversalNewline(stored) ==
    LET n == Len(stored)
    IN  IF n >= 2 /\ stored[n - 1] = "\r" /\ stored[n] = "\n"
        THEN SubSeq(stored, 1, n - 2) \o <<"\n">>
        ELSE IF n >= 1 /\ stored[n] = "\r"
        THEN SubSeq(stored, 1, n - 1) \o <<"\n">>
        ELSE stored

\* a file handle when its with block is left, normally or by an exception
ReleasedLeak(handle) == handle
Released(handle) == IF handle = "open" THEN "closed" ELSE handle

InputPath == <<"parent", infile>>
\* outfile = path_output + "/" + name_folder_infile + "assembly.fasta"
OutFile == <<path_output, name_folder_infile \o AssemblyFasta>>

\* the file f created empty, or truncated if it exists
Truncated(files, f) ==
    [g \in (DOMAIN files) \cup {f} |-> IF g = f THEN <<>> ELSE files[g]]

\* lines stored in the explored input files
HeaderLine1 ==
    <<">", "1", " ">> \o LengthWord \o <<"=", "5", " ">> \o CircularWord
    \o <<"=", "t", "r", "u", "e", "\n">>
HeaderLine2 == <<">", "2", " ">> \o LengthWord \o <<"=", "1", "2", "\r", "\n">>
HeaderLine3 == <<">", "3", " ">> \o LengthWord \o <<"\n">>
StoredLines ==
    { HeaderLine1, HeaderLine2, HeaderLine3,
      <<"A", "C", "G", "T", "\n">>,
      <<"A", "C", "\r", "\n">>,
      <<"G", "T">> }

Terminated(line) == Len(line) > 0 /\ line[Len(line)] = "\n"

\* a file's lines: only the last may lack its terminator
Contents ==
    {c \in SeqsUpTo(StoredLines, MaxLines) :
        \A i \in 1..(Len(c) - 1) : Terminated(c[i])}

Folders == { <<"a">>, <<"a", "_", "b", "_", "c">>, <<"a", "-">> }
InfileNames == { AssemblyFasta, <<"a", "_">> \o AssemblyFasta }

Init ==
    /\ NameIdle
    /\ HeaderIdle
    /\ args \in [input : {"file", "dir", "missing"},
                 output : {"none", "parent", "other", "missing"}]
    /\ folder \in Folders
    /\ infile \in InfileNames
    /\ \E c \in Contents :
           fs = IF args.input = "file" THEN (<<"parent", infile>> :> c)
                ELSE <<>>
    /\ fs0 = fs
    /\ pc = "process_arguments"
    /\ name_folder_infile = <<>>
    /\ path_output = "none"
    /\ file_reader = "none"
    /\ file_writer = "none"
    /\ lines_read = <<>>
    /\ lines_written = 0
    /\ stdout = 0
    /\ stderr = ""
    /\ status = -1

\* an uncaught exception: the traceback is reported, the status is 1 and
\* nothing after the failing statement runs
Raise(exception) ==
    /\ pc' = "raised"
    /\ stderr' = exception
    /\ status' = 1

\* process_arguments when one of its three checks fails
ValidationFails ==
    /\ pc = "process_arguments"
    /\ FailedCheck(args) # ""
    /\ LET exit == SysExit(1, FailedCheck(args))
       IN  /\ pc' = "raised"
           /\ stderr' = exit.stderr
           /\ status' = exit.status
    /\ UNCHANGED <<nameVars, headerVars, args, folder, infile, fs, fs0,
                   name_folder_infile, path_output, file_reader, file_writer,
                   lines_read, lines_written, stdout>>

\* process_arguments when the three checks pass
ProcessArguments ==
    /\ pc = "process_arguments"
    /\ FailedCheck(args) = ""
    /\ name_folder_infile' = check_name_folder_infile(folder)
    /\ path_output' = IF args.output = "none" THEN "parent" ELSE args.output
    /\ pc' = "open_reader"
    /\ UNCHANGED <<nameVars, headerVars, args, folder, infile, fs, fs0,
                   file_reader, file_writer, lines_read, lines_written,
                   stdout, stderr, status>>

\* with open(input_file, "r") as file_reader
OpenReader ==
    /\ pc = "open_reader"
    /\ file_reader' = "open"
    /\ pc' = "open_writer"
    /\ UNCHANGED <<nameVars, headerVars, args, folder, infile, fs, fs0,
                   name_folder_infile, path_output, file_writer, lines_read,
                   lines_written, stdout, stderr, status>>

\* the same open refused by the system (no permission to read)
OpenReaderFails ==
    /\ pc = "open_reader"
    /\ Raise("OSError")
    /\ UNCHANGED <<nameVars, headerVars, args, folder, infile, fs, fs0,
                   name_folder_infile, path_output, file_reader, file_writer,
                   lines_read, lines_written, stdout>>

\* with open(outfile, "w") as file_writer: the file is created or emptied
OpenWriter ==
    /\ pc = "open_writer"
    /\ fs' = Truncated(fs, OutFile)
    /\ file_writer' = "open"
    /\ pc' = "loop"
    /\ UNCHANGED <<nameVars, headerVars, args, folder, infile, fs0,
                   name_folder_infile, path_output, file_reader, lines_read,
                   lines_written, stdout, stderr, status>>

\* the same open refused by the system: the reader's with block is left
OpenWriterFails ==
    /\ pc = "open_writer"
    /\ Raise("OSError")
    /\ file_reader' = Released(file_reader)
    /\ UNCHANGED <<nameVars, headerVars, args, folder, infile, fs, fs0,
                   name_folder_infile, path_output, file_writer, lines_read,
                   lines_written, stdout>>

\* the reader has a next line: the file holds more lines than were read
HasNextLine == Len(lines_read) < Len(fs[InputPath])
NextLine == UniversalNewline(fs[InputPath][Len(lines_read) + 1])

\* file_writer.write(text), as one more line of the output file
Write(text) ==
    /\ fs' = [fs EXCEPT ![OutFile] = Append(@, text)]
    /\ lines_written' = lines_written + 1

\* one iteration on a header line that make_new_header rewrites
WriteNewHeader ==
    /\ pc = "loop"
    /\ HasNextLine
    /\ StartsWith(NextLine, <<">">>)
    /\ make_new_header(NextLine, name_folder_infile).raised = ""
    /\ lines_read' = Append(lines_read, NextLine)
    /\ Write(make_new_header(NextLine, name_folder_infile).value)
    /\ UNCHANGED <<nameVars, headerVars, args, folder, infile, fs0, pc,
                   name_folder_infile, path_output, file_reader, file_writer,
                   stdout, stderr, status>>

\* one iteration on a header line on which make_new_header raises: both
\* with blocks are left
NewHeaderRaises ==
    /\ pc = "loop"
    /\ HasNextLine
    /\ StartsWith(NextLine, <<">">>)
    /\ make_new_header(NextLine, name_folder_infile).raised # ""
    /\ lines_read' = Append(lines_read, NextLine)
    /\ Raise(make_new_header(NextLine, name_folder_infile).raised)
    /\ file_writer' = Released(file_writer)
    /\ file_reader' = Released(file_reader)
    /\ UNCHANGED <<nameVars, headerVars, args, folder, infile, fs, fs0,
                   name_folder_infile, path_output, lines_written, stdout>>

\* one iteration on any other line
CopyLine ==
    /\ pc = "loop"
    /\ HasNextLine
    /\ ~StartsWith(NextLine, <<">">>)
    /\ lines_read' = Append(lines_read, NextLine)
    /\ Write(NextLine)
    /\ UNCHANGED <<nameVars, headerVars, args, folder, infile, fs0, pc,
                   name_folder_infile, path_output, file_reader, file_writer,
                   stdout, stderr, status>>

\* a read or a write refused by the system: both with blocks are left
StreamFails ==
    /\ pc = "loop"
    /\ Raise("OSError")
    /\ file_writer' = Released(file_writer)
    /\ file_reader' = Released(file_reader)
    /\ UNCHANGED <<nameVars, headerVars, args, folder, infile, fs, fs0,
                   name_folder_infile, path_output, lines_read,
                   lines_written, stdout>>

\* the reader is exhausted: the loop and both with blocks are left
EndOfFile ==
    /\ pc = "loop"
    /\ ~HasNextLine
    /\ file_writer' = Released(file_writer)
    /\ file_reader' = Released(file_reader)
    /\ pc' = "print"
    /\ UNCHANGED <<nameVars, headerVars, args, folder, infile, fs, fs0,
                   name_folder_infile, path_output, lines_read,
                   lines_written, stdout, stderr, status>>

\* print("Headers were succesfully renamed!") and the end of the script
PrintConfirmation ==
    /\ pc = "print"
    /\ stdout' = stdout + 1
    /\ status' = 0
    /\ pc' = "done"
    /\ UNCHANGED <<nameVars, headerVars, args, folder, infile, fs, fs0,
                   name_folder_infile, path_output, file_reader, file_writer,
                   lines_read, lines_written, stderr>>

Next ==
    \/ ValidationFails
    \/ ProcessArguments
    \/ OpenReader
    \/ OpenReaderFails
    \/ OpenWriter
    \/ OpenWriterFails
    \/ WriteNewHeader
    \/ NewHeaderRaises
    \/ CopyLine
    \/ StreamFails
    \/ EndOfFile
    \/ PrintConfirmation

Spec == Init /\ [][Next]_vars

---------------------------------------------------------------------------
(* Claims about the script, checked under Spec.                            *)

Streamed == pc \in {"print", "done"}

\* C6: a completed run of rename_headers writes one output line per line of
\* the input file, in order: a line not starting with ">" unchanged, content
\* and terminator, a line starting with ">" replaced by make_new_header of
\* it.
C6_LinesCopied ==
    Streamed =>
        LET input == fs0[InputPath]
            output == fs[OutFile]
        IN  /\ Len(output) = Len(input)
            /\ \A i \in 1..Len(input) :
                   output[i] =
                       IF StartsWith(input[i], <<">">>)
                       THEN make_new_header(input[i],
                                            name_folder_infile).value
                       ELSE input[i]

\* C7: the file opened for writing is not the input file, and the input
\* file's content is at all times what it was before the run.
C7_InputUntouched ==
    args.input = "file" =>
        /\ file_writer # "none" => OutFile # InputPath
        /\ fs[InputPath] = fs0[InputPath]

\* C8: a failed validation reports the check that failed, ends the process
\* with a non-zero status, opens no file for writing, leaves no output file
\* and prints no confirmation.
C8_ValidationReported ==
    (FailedCheck(args) # "" /\ pc # "process_arguments") =>
        /\ stderr = FailedCheck(args)
        /\ status > 0
        /\ file_writer = "none"
        /\ fs = fs0
        /\ stdout = 0

=============================================================================
